---- MODULE Spec2Model ----
(***************************************************************************)
(* Model of src/main.py: a FastAPI service over three SQLite tables        *)
(* (students, classes, class_association) reached through SQLAlchemy       *)
(* sessions.                                                               *)
(*                                                                         *)
(* Spec      : requests run one after the other, one action per handler.   *)
(* SpecConc  : two thread-pool workers run handlers whose store reads and   *)
(*             commits are separate steps.                                 *)
(***************************************************************************)
EXTENDS Integers, FiniteSets, Sequences, TLC

\* ------------------------------------------------------------------ bounds
\* Largest student id / class id the model lets SQLite assign.
MaxStudents == 2
MaxClasses == 2
\* Requests one worker serves in SpecConc.
MaxRequests == 2

StudentIds == 1..MaxStudents
ClassIds == 1..MaxClasses
Workers == {"w1", "w2"}

\* ------------------------------------------------------------------ values
\* Python None / SQL NULL in a column.
None == "None"
\* What Query.first() returns when no row matches.
NoneObj == [none |-> TRUE]

StudentFields == {"first_name", "last_name", "middle_name", "age", "city"}
ClassFields == {"name", "subject"}

\* Request bodies accepted by StudentCreate; middle_name may be left out.
StudentInputs ==
  { [first_name |-> "Ada", last_name |-> "Lovelace", middle_name |-> "King",
     age |-> 28, city |-> "London"],
    [first_name |-> "Ada", last_name |-> "Hopper", age |-> 36, city |-> "Paris"] }

\* The bodies two racing PUT requests draw from: one more, which differs from
\* the first body in first_name alone.
RaceInputs ==
  StudentInputs \cup
  { [first_name |-> "Grace", last_name |-> "Lovelace", middle_name |-> "King",
     age |-> 28, city |-> "London"] }

\* Request bodies accepted by ClassCreate.
ClassInputs == { [name |-> "Algebra I", subject |-> "Math"] }

\* StudentCreate.dict() with exclude_unset: only the fields the body carries.
StudentDictExcludeUnset(student) == student

\* StudentCreate.dict(): every field; a field left out of the body (only the
\* Optional middle_name can be) carries its default None.
StudentDict(student) ==
  [k \in StudentFields |-> IF k \in DOMAIN student THEN student[k] ELSE None]

\* ClassCreate.dict().
ClassDict(class_data) == [k \in ClassFields |-> class_data[k]]

\* A row of table students / classes: the id column plus the mapped columns.
Col(d, k) == IF k \in DOMAIN d THEN d[k] ELSE None

StudentRow(id, d) ==
  [id |-> id, first_name |-> Col(d, "first_name"), last_name |-> Col(d, "last_name"),
   middle_name |-> Col(d, "middle_name"), age |-> Col(d, "age"), city |-> Col(d, "city")]

ClassRow(id, d) == [id |-> id, name |-> d["name"], subject |-> d["subject"]]

\* ------------------------------------------------------------------ state
VARIABLES
  students,       \* table students: a set of rows
  classes,        \* table classes: a set of rows
  enrollments,    \* table class_association: a set of <<class_id, student_id>>
  worker,         \* per worker: the request in flight and its session (SpecConc)
  everStudentIds, \* history: ids create_student has returned
  everClassIds,   \* history: ids create_class has returned
  deletedStudentIds, \* history: ids delete_student has answered 200 for
  registered      \* history: pairs registered with 200 whose class and
                  \* student were not deleted since

vars == <<students, classes, enrollments, worker,
          everStudentIds, everClassIds, deletedStudentIds, registered>>

db == <<students, classes, enrollments>>
history == <<everStudentIds, everClassIds, deletedStudentIds, registered>>

\* ------------------------------------------------------------------ store
Ids(rows) == {r.id : r \in rows}

MaxOf(S) == CHOOSE m \in S : \A x \in S : x <= m

\* INTEGER PRIMARY KEY without AUTOINCREMENT: SQLite assigns the largest
\* rowid in the table plus one, 1 for an empty table.
NextRowid(rows) == IF rows = {} THEN 1 ELSE MaxOf(Ids(rows)) + 1

\* db.query(T).filter(T.id == id).first()
First(rows, id) ==
  IF \E r \in rows : r.id = id THEN CHOOSE r \in rows : r.id = id ELSE NoneObj

\* Rows in ascending id order, as a response list.
RECURSIVE SortById(_)
SortById(rows) ==
  IF rows = {} THEN <<>>
  ELSE LET m == CHOOSE r \in rows : \A q \in rows : r.id <= q.id
       IN <<m>> \o SortById(rows \ {m})

\* A join that forgets the class: every student registered anywhere.
LoadStudentsOfAnyClass(studs, enr, class_id) ==
  {s \in studs : \E e \in enr : e[2] = s.id}

\* Lazy load of class_obj.students: students JOIN class_association.
LoadStudentsOf(studs, enr, class_id) ==
  {s \in studs : <<class_id, s.id>> \in enr}

\* Lazy load of student_obj.classes: classes JOIN class_association.
LoadClassesOf(cls, enr, student_id) ==
  {c \in cls : <<c.id, student_id>> \in enr}

\* Responses: the HTTP status and the JSON body.
Response(status, body) == [status |-> status, body |-> body]
\* raise HTTPException(status_code, detail)
HTTPException(status_code, detail) == Response(status_code, [detail |-> detail])
\* An exception no handler catches.
ServerError == Response(500, [detail |-> "Internal Server Error"])

\* A worker that has served no request yet.
IdleWorker ==
  [pc |-> "idle", served |-> 0, req |-> [op |-> "none"], obj |-> NoneObj,
   other |-> NoneObj, peers |-> {}, resp |-> Response(0, [none |-> TRUE])]

Init ==
  /\ students = {}
  /\ classes = {}
  /\ enrollments = {}
  /\ worker = [w \in Workers |-> IdleWorker]
  /\ everStudentIds = {}
  /\ everClassIds = {}
  /\ deletedStudentIds = {}
  /\ registered = {}

\* ------------------------------------------------------------------ flush
\* INSERT INTO students / classes: the new row gets the next rowid.
InsertStudent(studs, d) == studs \cup {StudentRow(NextRowid(studs), d)}
InsertClass(cls, d) == cls \cup {ClassRow(NextRowid(cls), d)}

\* setattr(db_student, key, value) for every item of the dict: the attributes
\* of the loaded object after the loop (the id is no key of the dict).
SetAttrs(db_student, d) ==
  StudentRow(db_student.id,
             [k \in StudentFields |-> IF k \in DOMAIN d THEN d[k] ELSE db_student[k]])

\* The unit of work emits UPDATE students SET <cols> WHERE id = <id> with the
\* columns whose new value differs from the value loaded into the session.
ChangedColumns(loaded, current) == {k \in StudentFields : current[k] # loaded[k]}

UpdateStudent(studs, loaded, current) ==
  {IF r.id = loaded.id
     THEN StudentRow(r.id, [k \in StudentFields |->
                              IF k \in ChangedColumns(loaded, current)
                                THEN current[k] ELSE r[k]])
     ELSE r : r \in studs}

\* Deleting one side of the many-to-many relationship: the unit of work
\* deletes the class_association rows of the collection it loaded, then the row.
SecondaryOfStudentKept(enr, student_id, loaded_classes) == enr

SecondaryOfStudent(enr, student_id, loaded_classes) ==
  enr \ {<<c.id, student_id>> : c \in loaded_classes}

SecondaryOfClassAllOfItsStudents(enr, class_id, loaded_students) ==
  {e \in enr : e[2] \notin Ids(loaded_students)}

SecondaryOfClass(enr, class_id, loaded_students) ==
  enr \ {<<class_id, s.id>> : s \in loaded_students}

DeleteRow(rows, id) == {r \in rows : r.id # id}

\* `student_obj in class_obj.students`
NeverRegistered(student_obj, loaded_students) == FALSE

AlreadyRegistered(student_obj, loaded_students) ==
  \E s \in loaded_students : s.id = student_obj.id

\* History kept beside the store.
Forget(pairs, class_ids, student_ids) ==
  {e \in pairs : e[1] \notin class_ids /\ e[2] \notin student_ids}

\* ------------------------------------------------------------------ handlers
\* Each handler is an action on the store and, beside it, the response it
\* sends, a function of the request and of the store the request finds.

\* POST /students
create_student(student) ==
  /\ NextRowid(students) <= MaxStudents
  /\ students' = InsertStudent(students, StudentDict(student))
  /\ everStudentIds' = everStudentIds \cup {NextRowid(students)}
  /\ UNCHANGED <<classes, enrollments, worker, everClassIds,
                 deletedStudentIds, registered>>

create_student_response(student) ==
  Response(200, [row |-> First(InsertStudent(students, StudentDict(student)),
                               NextRowid(students))])

\* GET /students
read_students == UNCHANGED vars

read_students_response == Response(200, [rows |-> SortById(students)])

\* PUT /students/{student_id}
update_student(student_id, student) ==
  LET db_student == First(students, student_id)
  IN IF db_student = NoneObj
       THEN UNCHANGED vars
       ELSE /\ UNCHANGED <<classes, enrollments, worker, history>>
            /\ students' = UpdateStudent(students, db_student,
                                         SetAttrs(db_student, StudentDict(student)))

update_student_response(student_id, student) ==
  LET db_student == First(students, student_id)
  IN IF db_student = NoneObj
       THEN HTTPException(404, "Student not found")
       ELSE Response(200,
              [row |-> First(UpdateStudent(students, db_student,
                               SetAttrs(db_student, StudentDict(student))),
                             db_student.id)])

\* DELETE /students/{student_id}
delete_student(student_id) ==
  LET db_student == First(students, student_id)
  IN IF db_student = NoneObj
       THEN UNCHANGED vars
       ELSE /\ UNCHANGED <<classes, worker, everStudentIds, everClassIds>>
            /\ enrollments' = SecondaryOfStudent(enrollments, db_student.id,
                                LoadClassesOf(classes, enrollments, db_student.id))
            /\ students' = DeleteRow(students, db_student.id)
            /\ deletedStudentIds' = deletedStudentIds \cup {student_id}
            /\ registered' = Forget(registered, {}, {student_id})

delete_student_response(student_id) ==
  IF First(students, student_id) = NoneObj
    THEN HTTPException(404, "Student not found")
    ELSE Response(200, [message |-> "Student deleted successfully"])

\* POST /classes
create_class(class_data) ==
  /\ NextRowid(classes) <= MaxClasses
  /\ classes' = InsertClass(classes, ClassDict(class_data))
  /\ everClassIds' = everClassIds \cup {NextRowid(classes)}
  /\ UNCHANGED <<students, enrollments, worker, everStudentIds,
                 deletedStudentIds, registered>>

create_class_response(class_data) ==
  Response(200, [row |-> First(InsertClass(classes, ClassDict(class_data)),
                               NextRowid(classes))])

\* GET /classes
get_classes == UNCHANGED vars

get_classes_response == Response(200, [rows |-> SortById(classes)])

\* POST /classes/{class_id}/students/{student_id}
\* The HTTPException the handler raises after its three reads, NoneObj when it
\* raises none and goes on to append and commit.
RegisterChecks(class_obj, student_obj, loaded_students) ==
  IF class_obj = NoneObj THEN HTTPException(404, "Class not found")
  ELSE IF student_obj = NoneObj THEN HTTPException(404, "Student not found")
  ELSE IF AlreadyRegistered(student_obj, loaded_students)
    THEN HTTPException(400, "Student already registered to this class")
  ELSE NoneObj

\* db.commit() after the append: INSERT INTO class_association. A row with the
\* same composite primary key makes it fail with IntegrityError, which no
\* handler catches.
RegisterCommitResponse(enr, class_id, student_id) ==
  IF <<class_id, student_id>> \in enr
    THEN ServerError
    ELSE Response(200, [message |-> "registered", student |-> student_id,
                        class |-> class_id])

register_student_to_class_response(class_id, student_id) ==
  LET raised == RegisterChecks(First(classes, class_id), First(students, student_id),
                               LoadStudentsOf(students, enrollments, class_id))
  IN IF raised # NoneObj THEN raised
     ELSE RegisterCommitResponse(enrollments, class_id, student_id)

register_student_to_class(class_id, student_id) ==
  IF register_student_to_class_response(class_id, student_id).status = 200
    THEN /\ UNCHANGED <<students, classes, worker, everStudentIds, everClassIds,
                        deletedStudentIds>>
         /\ enrollments' = enrollments \cup {<<class_id, student_id>>}
         /\ registered' = registered \cup {<<class_id, student_id>>}
    ELSE UNCHANGED vars

\* GET /classes/{class_id}/students
list_students_in_class(class_id) == UNCHANGED vars

list_students_in_class_response(class_id) ==
  LET class_obj == First(classes, class_id)
  IN IF class_obj = NoneObj
       THEN HTTPException(404, "Class not found")
       ELSE Response(200, [rows |-> SortById(LoadStudentsOf(students, enrollments,
                                                            class_obj.id))])

\* DELETE /classes/{class_id}
delete_class(class_id) ==
  LET db_class == First(classes, class_id)
  IN IF db_class = NoneObj
       THEN UNCHANGED vars
       ELSE /\ UNCHANGED <<students, worker, everStudentIds, everClassIds,
                           deletedStudentIds>>
            /\ enrollments' = SecondaryOfClass(enrollments, db_class.id,
                                LoadStudentsOf(students, enrollments, db_class.id))
            /\ classes' = DeleteRow(classes, db_class.id)
            /\ registered' = Forget(registered, {class_id}, {})

delete_class_response(class_id) ==
  IF First(classes, class_id) = NoneObj
    THEN HTTPException(404, "Class not found")
    ELSE Response(200, [message |-> "Class deleted successfully"])

\* Requests served one after the other.
Next ==
  \/ \E student \in StudentInputs : create_student(student)
  \/ read_students
  \/ \E student_id \in StudentIds, student \in StudentInputs :
       update_student(student_id, student)
  \/ \E student_id \in StudentIds : delete_student(student_id)
  \/ \E class_data \in ClassInputs : create_class(class_data)
  \/ get_classes
  \/ \E class_id \in ClassIds, student_id \in StudentIds :
       register_student_to_class(class_id, student_id)
  \/ \E class_id \in ClassIds : list_students_in_class(class_id)
  \/ \E class_id \in ClassIds : delete_class(class_id)

Spec == Init /\ [][Next]_vars

\* ------------------------------------------------------------------ workers
\* The handlers are plain `def`s: FastAPI runs each request on a thread of its
\* pool, with a session of its own. A session reads with SELECTs outside any
\* write transaction and writes at db.commit(), so a request is a read step
\* followed by a commit step, and the steps of two requests interleave.
\* worker[w].obj and .other are the objects the session loaded, .peers the
\* requests <<worker, serial>> that were in flight while this one was.

InFlight(w) == worker[w].pc = "commit"

PeersOf(w) == {<<u, worker[u].served>> : u \in {x \in Workers \ {w} : InFlight(x)}}

\* The request of worker w has read (or, for a create, is about to commit).
Started(w, req, obj, other) ==
  [u \in Workers |->
     IF u = w
       THEN [worker[w] EXCEPT !.pc = "commit", !.req = req, !.obj = obj,
                               !.other = other, !.peers = PeersOf(w)]
     ELSE IF InFlight(u)
       THEN [worker[u] EXCEPT !.peers = @ \cup {<<w, worker[w].served>>}]
     ELSE worker[u]]

\* The request of worker w is answered, at its commit or, when its read step
\* already decides it, at once.
Finished(w, req, r) ==
  [u \in Workers |->
     IF u = w
       THEN [pc |-> "idle", served |-> worker[w].served + 1, req |-> req,
             obj |-> NoneObj, other |-> NoneObj,
             peers |-> IF InFlight(w) THEN worker[w].peers ELSE PeersOf(w),
             resp |-> r]
     ELSE IF InFlight(u) /\ ~InFlight(w)
       THEN [worker[u] EXCEPT !.peers = @ \cup {<<w, worker[w].served>>}]
     ELSE worker[u]]

Free(w) == worker[w].pc = "idle" /\ worker[w].served < MaxRequests

\* POST /students and POST /classes: one INSERT, committed at once.
CreateStudentStep(w, student) ==
  /\ Free(w)
  /\ create_student(student)!1
  /\ students' = InsertStudent(students, StudentDict(student))
  /\ everStudentIds' = everStudentIds \cup {NextRowid(students)}
  /\ worker' = Finished(w, [op |-> "create_student", student |-> student],
                        create_student_response(student))
  /\ UNCHANGED <<classes, enrollments, everClassIds, deletedStudentIds, registered>>

CreateClassStep(w, class_data) ==
  /\ Free(w)
  /\ create_class(class_data)!1
  /\ classes' = InsertClass(classes, ClassDict(class_data))
  /\ everClassIds' = everClassIds \cup {NextRowid(classes)}
  /\ worker' = Finished(w, [op |-> "create_class", class_data |-> class_data],
                        create_class_response(class_data))
  /\ UNCHANGED <<students, enrollments, everStudentIds, deletedStudentIds, registered>>

\* PUT /students/{student_id}: the query of line 95.
UpdateRead(w, student_id, student) ==
  LET req == [op |-> "update_student", student_id |-> student_id, student |-> student]
      db_student == First(students, student_id)
  IN /\ Free(w)
     /\ worker' = IF db_student = NoneObj
                    THEN Finished(w, req, HTTPException(404, "Student not found"))
                    ELSE Started(w, req, db_student, NoneObj)
     /\ UNCHANGED <<db, history>>

\* The setattr loop, db.commit() and db.refresh() of lines 98-101. An UPDATE
\* that matches no row raises StaleDataError, a refresh that finds no row
\* raises InvalidRequestError; no handler catches either.
UpdateCommit(w) ==
  LET loaded == worker[w].obj
      current == SetAttrs(loaded, StudentDict(worker[w].req.student))
      gone == loaded.id \notin Ids(students)
      after == IF gone THEN students ELSE UpdateStudent(students, loaded, current)
  IN /\ InFlight(w)
     /\ worker[w].req.op = "update_student"
     /\ students' = after
     /\ worker' = Finished(w, worker[w].req,
                           IF gone THEN ServerError
                           ELSE Response(200, [row |-> First(after, loaded.id)]))
     /\ UNCHANGED <<classes, enrollments, history>>

\* DELETE /students/{student_id}: the query of line 107.
DeleteStudentRead(w, student_id) ==
  LET req == [op |-> "delete_student", student_id |-> student_id]
      db_student == First(students, student_id)
  IN /\ Free(w)
     /\ worker' = IF db_student = NoneObj
                    THEN Finished(w, req, HTTPException(404, "Student not found"))
                    ELSE Started(w, req, db_student, NoneObj)
     /\ UNCHANGED <<db, history>>

\* db.delete() and db.commit() of lines 110-111: the flush loads the student's
\* classes, deletes those class_association rows and the student row. A DELETE
\* of the student row that matches nothing is only warned about.
DeleteStudentCommit(w) ==
  LET id == worker[w].obj.id
  IN /\ InFlight(w)
     /\ worker[w].req.op = "delete_student"
     /\ enrollments' = SecondaryOfStudent(enrollments, id,
                                          LoadClassesOf(classes, enrollments, id))
     /\ students' = DeleteRow(students, id)
     /\ deletedStudentIds' = deletedStudentIds \cup {id}
     /\ registered' = Forget(registered, {}, {id})
     /\ worker' = Finished(w, worker[w].req,
                           Response(200, [message |-> "Student deleted successfully"]))
     /\ UNCHANGED <<classes, everStudentIds, everClassIds>>

\* POST /classes/{class_id}/students/{student_id}: the queries of lines
\* 131-132, the lazy load of class_obj.students and the checks of lines 134-139.
RegisterRead(w, class_id, student_id) ==
  LET req == [op |-> "register", class_id |-> class_id, student_id |-> student_id]
      class_obj == First(classes, class_id)
      student_obj == First(students, student_id)
      raised == RegisterChecks(class_obj, student_obj,
                               LoadStudentsOf(students, enrollments, class_id))
  IN /\ Free(w)
     /\ worker' = IF raised # NoneObj
                    THEN Finished(w, req, raised)
                    ELSE Started(w, req, class_obj, student_obj)
     /\ UNCHANGED <<db, history>>

\* The append and db.commit() of lines 141-142: INSERT INTO class_association.
\* SQLite does not enforce the table's foreign keys unless asked to.
RegisterCommit(w) ==
  LET c == worker[w].obj.id
      s == worker[w].other.id
      r == RegisterCommitResponse(enrollments, c, s)
  IN /\ InFlight(w)
     /\ worker[w].req.op = "register"
     /\ enrollments' = IF r.status = 200 THEN enrollments \cup {<<c, s>>}
                       ELSE enrollments
     /\ registered' = IF r.status = 200 THEN registered \cup {<<c, s>>}
                      ELSE registered
     /\ worker' = Finished(w, worker[w].req, r)
     /\ UNCHANGED <<students, classes, everStudentIds, everClassIds,
                    deletedStudentIds>>

\* DELETE /classes/{class_id}: the query of line 155.
DeleteClassRead(w, class_id) ==
  LET req == [op |-> "delete_class", class_id |-> class_id]
      db_class == First(classes, class_id)
  IN /\ Free(w)
     /\ worker' = IF db_class = NoneObj
                    THEN Finished(w, req, HTTPException(404, "Class not found"))
                    ELSE Started(w, req, db_class, NoneObj)
     /\ UNCHANGED <<db, history>>

\* db.delete() and db.commit() of lines 158-159.
DeleteClassCommit(w) ==
  LET id == worker[w].obj.id
  IN /\ InFlight(w)
     /\ worker[w].req.op = "delete_class"
     /\ enrollments' = SecondaryOfClass(enrollments, id,
                                        LoadStudentsOf(students, enrollments, id))
     /\ classes' = DeleteRow(classes, id)
     /\ registered' = Forget(registered, {id}, {})
     /\ worker' = Finished(w, worker[w].req,
                           Response(200, [message |-> "Class deleted successfully"]))
     /\ UNCHANGED <<students, everStudentIds, everClassIds, deletedStudentIds>>

\* Requests served by the workers of the pool, step by step.
NextConc ==
  \E w \in Workers :
    \/ \E student \in StudentInputs : CreateStudentStep(w, student)
    \/ \E class_data \in ClassInputs : CreateClassStep(w, class_data)
    \/ \E student_id \in StudentIds, student \in RaceInputs :
         UpdateRead(w, student_id, student)
    \/ UpdateCommit(w)
    \/ \E student_id \in StudentIds : DeleteStudentRead(w, student_id)
    \/ DeleteStudentCommit(w)
    \/ \E class_id \in ClassIds, student_id \in StudentIds :
         RegisterRead(w, class_id, student_id)
    \/ RegisterCommit(w)
    \/ \E class_id \in ClassIds : DeleteClassRead(w, class_id)
    \/ DeleteClassCommit(w)

SpecConc == Init /\ [][NextConc]_vars

\* ------------------------------------------------------------------ properties
Existing(rows) == Ids(rows)

\* What the request body asks a student row to be: its fields, and null for a
\* middle_name it leaves out.
Asked(id, student) ==
  [id |-> id, first_name |-> student.first_name, last_name |-> student.last_name,
   middle_name |-> IF "middle_name" \in DOMAIN student
                     THEN student.middle_name ELSE None,
   age |-> student.age, city |-> student.city]

Elements(seq) == {seq[i] : i \in 1..Len(seq)}

\* C1: with requests served one after the other, every enrollment row refers
\* to a class that exists and a student that exists, so no delete leaves a row
\* that mentions the deleted id.
C1_EnrollmentsReferToExistingRows ==
  \A e \in enrollments : e[1] \in Existing(classes) /\ e[2] \in Existing(students)

\* A student and a class were deleted and are gone, enrollments remain, and
\* deleting a student who is enrolled takes every row of that student away.
C1_Witness ==
  /\ \E id \in deletedStudentIds : id \notin Existing(students)
  /\ \E id \in everClassIds : id \notin Existing(classes)
  /\ \E s \in students :
       /\ \E e \in enrollments : e[2] = s.id
       /\ \A e \in SecondaryOfStudent(enrollments, s.id,
                                       LoadClassesOf(classes, enrollments, s.id)) :
            e[2] # s.id

C2_FreshIds ==
  /\ \A student \in StudentInputs :
       NextRowid(students) <= MaxStudents =>
         create_student_response(student).body.row.id \notin everStudentIds
  /\ \A class_data \in ClassInputs :
       NextRowid(classes) <= MaxClasses =>
         create_class_response(class_data).body.row.id \notin everClassIds

C2_IdsKept ==
  \A id \in StudentIds, student \in StudentInputs :
    update_student(id, student) => Ids(students') = Ids(students)

\* C2: the id create_student (create_class) returns was never returned by an
\* earlier create_student (create_class), deleted rows included, and no
\* request changes the id of a row.
C2_IdsNeverReused == []C2_FreshIds /\ [][C2_IdsKept]_vars

C3_RegisterAnswers ==
  \A c \in ClassIds, s \in StudentIds :
    LET r == register_student_to_class_response(c, s)
    IN /\ c \notin Existing(classes) => r = HTTPException(404, "Class not found")
       /\ c \in Existing(classes) /\ s \notin Existing(students)
            => r = HTTPException(404, "Student not found")
       /\ c \in Existing(classes) /\ s \in Existing(students)
            => IF <<c, s>> \in enrollments
                 THEN r = HTTPException(400, "Student already registered to this class")
                 ELSE r.status = 200
       /\ <<c, s>> \in registered => r.status = 400

C3_RegisterEffect ==
  \A c \in ClassIds, s \in StudentIds :
    register_student_to_class(c, s) =>
      /\ enrollments' =
           IF register_student_to_class_response(c, s).status = 200
             THEN enrollments \cup {<<c, s>>} ELSE enrollments
      /\ register_student_to_class_response(c, s).status = 200 =>
           /\ <<c, s>> \notin enrollments
           /\ register_student_to_class_response(c, s)'.status = 400
      /\ UNCHANGED <<students, classes>>

\* C3: register answers 404 for a missing class, 404 for a missing student,
\* 400 for a pair already enrolled and 200 otherwise; a 200 adds exactly the
\* pair, any other answer adds nothing, and a pair registered with 200 is
\* answered 400 for as long as its class and student are not deleted.
C3_Register == []C3_RegisterAnswers /\ [][C3_RegisterEffect]_vars

\* A pair is enrolled and a second registration of it is answered 400.
C3_Witness ==
  \E e \in registered :
    /\ e \in enrollments
    /\ register_student_to_class_response(e[1], e[2]).status = 400

\* C4: for an existing class the listing is exactly the students registered
\* in it with 200 and not deleted since, each once; for a class id that does
\* not exist, a deleted one included, it is 404.
C4_ListStudentsInClass ==
  \A c \in ClassIds :
    LET r == list_students_in_class_response(c)
    IN IF c \in Existing(classes)
         THEN /\ r.status = 200
              /\ Elements(r.body.rows) = {s \in students : <<c, s.id>> \in registered}
              /\ \A i, j \in 1..Len(r.body.rows) :
                   r.body.rows[i].id = r.body.rows[j].id => i = j
         ELSE r = HTTPException(404, "Class not found")

\* Two classes exist, one lists a student the other does not, one lists
\* nobody, and a student deleted earlier is gone.
C4_Witness ==
  /\ \E c, d \in Existing(classes) :
       /\ list_students_in_class_response(c).body.rows # <<>>
       /\ list_students_in_class_response(d).body.rows = <<>>
  /\ \E id \in deletedStudentIds : id \notin Existing(students)

C5_UpdateAnswers ==
  \A id \in StudentIds, student \in StudentInputs :
    update_student_response(id, student) =
      IF id \in Existing(students)
        THEN Response(200, [row |-> Asked(id, student)])
        ELSE HTTPException(404, "Student not found")

C5_UpdateEffect ==
  \A id \in StudentIds, student \in StudentInputs :
    update_student(id, student) =>
      /\ students' = IF id \in Existing(students)
                       THEN {s \in students : s.id # id} \cup {Asked(id, student)}
                       ELSE students
      /\ UNCHANGED <<classes, enrollments>>

\* C5: update_student answers 404 for a missing id and changes nothing; for
\* an existing id it answers the row with the id kept and every field set to
\* the body's value (middle_name null when left out), stores that row, and
\* leaves the other students, the classes and the enrollments as they were.
C5_Update == []C5_UpdateAnswers /\ [][C5_UpdateEffect]_vars

\* A stored middle_name is reset to null by a body that leaves it out, on a
\* student that is enrolled beside another student.
C5_Witness ==
  \E s \in students, student \in StudentInputs :
    /\ s.middle_name # None
    /\ "middle_name" \notin DOMAIN student
    /\ update_student_response(s.id, student).body.row.middle_name = None
    /\ \E e \in enrollments : e[2] = s.id
    /\ Cardinality(students) > 1

\* C6: once delete_student(id) has answered 200, a later delete_student(id)
\* answers 404, whatever ran in between.
C6_SecondDeleteNotFound ==
  \A id \in deletedStudentIds : delete_student_response(id).status = 404

C10_DeleteFrame ==
  /\ \A c \in ClassIds :
       delete_class(c) =>
         /\ students' = students
         /\ classes' = {x \in classes : x.id # c}
         /\ enrollments' = {e \in enrollments : e[1] # c}
         /\ \A s \in LoadStudentsOf(students, enrollments, c) :
              s \in Elements(read_students_response'.body.rows)
  /\ \A s \in StudentIds :
       delete_student(s) =>
         /\ classes' = classes
         /\ students' = {x \in students : x.id # s}
         /\ enrollments' = {e \in enrollments : e[2] # s}

\* C10: delete_class removes the class row and the enrollments of that class
\* and nothing else; delete_student removes the student row and the
\* enrollments of that student and nothing else; the students of a deleted
\* class are still listed by read_students.
C10_Delete == [][C10_DeleteFrame]_vars

\* A class and a student were deleted and are gone; another class still has
\* its enrollment, and its student is still listed by read_students.
C10_Witness ==
  /\ \E id \in everClassIds : id \notin Existing(classes)
  /\ \E id \in deletedStudentIds : id \notin Existing(students)
  /\ \E d \in Existing(classes), s \in Existing(students) :
       /\ <<d, s>> \in enrollments
       /\ delete_class_response(d).status = 200
       /\ First(students, s) \in Elements(read_students_response.body.rows)

\* The last requests of workers w and u, both answered, ran at the same time.
Raced(w, u) ==
  /\ w # u
  /\ worker[w].pc = "idle" /\ worker[u].pc = "idle"
  /\ worker[w].served > 0 /\ worker[u].served > 0
  /\ \/ <<u, worker[u].served - 1>> \in worker[w].peers
     \/ <<w, worker[w].served - 1>> \in worker[u].peers

\* C7: when two register requests for the same existing pair run at the same
\* time, the pair is stored once, one request is answered 200 and the other
\* 400.
C7_RacingRegisters ==
  \A w, u \in Workers :
    ( /\ Raced(w, u)
      /\ worker[w].req.op = "register" /\ worker[u].req = worker[w].req
      /\ worker[w].req.class_id \in Existing(classes)
      /\ worker[w].req.student_id \in Existing(students) )
    => /\ <<worker[w].req.class_id, worker[w].req.student_id>> \in enrollments
       /\ {worker[w].resp.status, worker[u].resp.status} = {200, 400}

\* C8: with reads and commits interleaved, no enrollment row is ever left
\* whose class or student no longer exists.
C8_NoDanglingEnrollment ==
  \A e \in enrollments :
    First(classes, e[1]) # NoneObj /\ First(students, e[2]) # NoneObj

\* C9: when two update_student requests for the same existing student run at
\* the same time and both are answered 200, the stored row is the whole body
\* of one of the two.
C9_LastCommitWins ==
  \A w, u \in Workers :
    ( /\ Raced(w, u)
      /\ worker[w].req.op = "update_student" /\ worker[u].req.op = "update_student"
      /\ worker[w].req.student_id = worker[u].req.student_id
      /\ worker[w].resp.status = 200 /\ worker[u].resp.status = 200
      /\ worker[w].req.student_id \in Existing(students) )
    => First(students, worker[w].req.student_id) \in
         { Asked(worker[w].req.student_id, worker[w].req.student),
           Asked(worker[u].req.student_id, worker[u].req.student) }

====
